---- MODULE Spec2Model ----
(***************************************************************************)
(* Workout session state machine of the useWorkout hook.                   *)
(*                                                                         *)
(* A workout is a sequence of sections, a section the sequence of its      *)
(* exercises, an exercise a record of the fields the state machine reads   *)
(* (sets, restAfterSet).  The source indexes arrays from 0, TLA+ sequences *)
(* from 1: the cursors keep the source's 0-based values and every array    *)
(* access adds 1.                                                          *)
(*                                                                         *)
(* Countdown timer of the useTimer hook (specification TimerSpec).  The    *)
(* intervals created by setInterval are a set of ids; intervalRef holds    *)
(* one of them or NoInterval.  The callbacks a caller holds were created   *)
(* at the last render and read the status of that render (renderedStatus), *)
(* which the render step brings up to date.                                *)
(*                                                                         *)
(* WorkoutRunner (specification RunnerSpec) composes the two: the session, *)
(* the main content committed for it (view) and the timer of the timed     *)
(* component that is mounted.  A click handler and the render it causes    *)
(* are one step; the render after a tick is a step of its own.  State      *)
(* updaters are evaluated once, as in a production build.                  *)
(***************************************************************************)
EXTENDS Integers, Sequences, FiniteSets

\* Bounds of the workouts the hook is constructed with.
MaxSections == 2
MaxExercises == 2
MaxSets == 2
MaxRest == 1

\* Bounds of the timer: durations, intervals alive at once, ticks per run.
MaxDuration == 2
MaxIntervals == 2
MaxTicks == 3
MaxCallbacks == 2

\* Bound of the runner: exercises of the workout it is mounted on.
MaxRunnerExercises == 2

\* State updates queued between two renders
MaxPending == 2

VARIABLES
    workout,   \* the Workout the hook was called with (read-only input)
    state,     \* the WorkoutState held by useState
    prev,      \* the state the last updater received (its `prev` argument)
    lastOp,    \* the transition function called last
    scenarioStep  \* how many calls of ScenarioCalls were made, in order, since
                  \* construction (-1 once the calls departed from it)

VARIABLES
    initialDuration,  \* the initialDuration argument of useTimer
    timeRemaining,    \* useState: seconds left
    totalTime,        \* useState: the full duration
    status,           \* useState: TimerStatus
    renderedStatus,   \* the status of the last render, read by its callbacks
    intervalRef,      \* intervalRef.current
    intervals,        \* the intervals that setInterval created and nothing cleared
    completions,      \* onComplete invocations since the last start() or reset()
    ticks,            \* interval callbacks run since the last start() or reset()
    run,              \* "none" before start() and after reset(); "alone" after
                      \* start(); "disturbed" once pause() or resume() was called
    timerPrev,        \* the timer state before the last call or tick
    timerOp,          \* the last call or tick
    lifecycle,        \* "mounted"; "unmounted" after the cleanup effect ran;
                      \* "used" once a control was called after that
    sinceReset,       \* reset() was called and start() has not been called since
    resumed,          \* the pause()-then-resume() of a running timer in progress
    onComplete,       \* the onComplete argument of the last render
    onCompleteRef,    \* onCompleteRef.current
    installedCallback, \* onCompleteRef.current when intervalRef's interval was created
    invoked,          \* the callback invoked last (NoCallback: none yet)
    startArg          \* the argument of the last start() (NoDuration: none given)

VARIABLES
    view,       \* the main content committed last: its screen and React key
    orphans,    \* intervals still alive of timed components that were unmounted
    enteredBy,  \* "pending": the session state changed and was not rendered yet;
                \* "committed": the last commit rendered a changed session state
    discarded   \* the last commit unmounted a timer whose interval was alive

VARIABLES
    completeSetCalls,  \* completeSet() calls made since the hook was mounted
    afterRestCalls,    \* afterRest() calls made since the hook was mounted
    visited            \* the cursors rendered in phase EXERCISING, in order

VARIABLES
    pending,        \* the state updates queued since the last render, in order
    batch,          \* the updates the last render applied
    timerDuration   \* currentTimerDuration as the last render computed it

sessionVars == <<workout, state, prev, lastOp, scenarioStep>>

timerVars ==
    <<initialDuration, timeRemaining, totalTime, status, renderedStatus,
      intervalRef, intervals, completions, ticks, run, timerPrev, timerOp,
      lifecycle, sinceReset, resumed, onComplete, onCompleteRef,
      installedCallback, invoked, startArg>>

runnerVars == <<view, orphans, enteredBy, discarded>>

driveVars == <<completeSetCalls, afterRestCalls, visited>>

hookVars == <<pending, batch, timerDuration>>

vars == <<sessionVars, timerVars, runnerVars, driveVars, hookVars>>

\* WorkoutPhase enum
IDLE == "IDLE"
EXERCISING == "EXERCISING"
RESTING == "RESTING"
COMPLETED == "COMPLETED"

WorkoutPhase == {IDLE, EXERCISING, RESTING, COMPLETED}

\* All sequences over S of length 0..n
SeqsUpTo(S, n) == UNION {[1..k -> S] : k \in 0..n}

\* BaseExercise: the fields read by the state machine
\* restAfterSet is in seconds, drawn in steps of 5
Exercise == [sets : 1..MaxSets, restAfterSet : {5 * k : k \in 0..MaxRest}]

\* WorkoutSection, as its `exercises` array (possibly empty)
WorkoutSection == SeqsUpTo(Exercise, MaxExercises)

\* Workout, as its `sections` array (possibly empty)
Workout == SeqsUpTo(WorkoutSection, MaxSections)

\* The input the spec assumes: non-empty sections/exercises (sets >= 1 by type)
WellFormed(w) == Len(w) >= 1 /\ \A i \in 1..Len(w) : Len(w[i]) >= 1

INITIAL_STATE ==
    [phase |-> IDLE, sectionIndex |-> 0, exerciseIndex |-> 0,
     currentSet |-> 1, restDuration |-> 0]

\* workout.sections[i] is defined (not `undefined`): i is within the array
hasSection(w, i) == i >= 0 /\ i < Len(w)

\* section?.exercises[j] is defined: the section exists and j is within it
hasExercise(w, i, j) == hasSection(w, i) /\ j >= 0 /\ j < Len(w[i + 1])

\* workout.sections[i], where defined
sectionAt(w, i) == w[i + 1]

\* workout.sections[i].exercises[j], where defined
exerciseAt(w, i, j) == w[i + 1][j + 1]

RECURSIVE sumLengths(_, _)
\* sections.slice(0, n).reduce((sum, section) => sum + section.exercises.length, 0)
sumLengths(w, n) ==
    IF n <= 0 \/ Len(w) = 0 THEN 0
    ELSE LET m == IF n > Len(w) THEN Len(w) ELSE n
         IN sumLengths(w, m - 1) + Len(w[m])

totalExercises(w) == sumLengths(w, Len(w))

completedExercisesCountsCurrent(w, s) ==
    sumLengths(w, s.sectionIndex) + s.exerciseIndex + 1

completedExercises(w, s) == sumLengths(w, s.sectionIndex) + s.exerciseIndex

startUpdaterZeroSet(w, p) == [p EXCEPT !.phase = EXERCISING, !.currentSet = 0]

\* The updater startWorkout passes to setState
startUpdater(w, p) == [p EXCEPT !.phase = EXERCISING]

\* const exercise = section?.exercises[prev.exerciseIndex], where the guard passed
cursorExercise(w, p) == exerciseAt(w, p.sectionIndex, p.exerciseIndex)

\* Safety guard: !section || !exercise
cursorUnresolved(w, p) ==
    ~hasSection(w, p.sectionIndex) \/ ~hasExercise(w, p.sectionIndex, p.exerciseIndex)

hasMoreSetsOffByOne(w, p) == p.currentSet <= cursorExercise(w, p).sets

\* Case 1 condition: more sets remain for this exercise
hasMoreSets(w, p) == p.currentSet < cursorExercise(w, p).sets

hasNextExerciseOffByOne(w, p) ==
    p.exerciseIndex < Len(sectionAt(w, p.sectionIndex))

\* Case 2 condition: not the last exercise of its section
hasNextExercise(w, p) ==
    p.exerciseIndex < Len(sectionAt(w, p.sectionIndex)) - 1

hasNextSectionNever(w, p) == FALSE

\* Case 3 condition: not the last section
hasNextSection(w, p) == p.sectionIndex < Len(w) - 1

completeSetCase1NoRest(w, p) ==
    [p EXCEPT !.phase = RESTING, !.currentSet = p.currentSet + 1]

completeSetCase1KeepsSet(w, p) ==
    [p EXCEPT !.phase = RESTING,
              !.restDuration = cursorExercise(w, p).restAfterSet]

\* Case 1 result: rest, then the next set of the same exercise
completeSetCase1(w, p) ==
    [p EXCEPT !.phase = RESTING,
              !.currentSet = p.currentSet + 1,
              !.restDuration = cursorExercise(w, p).restAfterSet]

completeSetCase2KeepsSet(w, p) ==
    [p EXCEPT !.phase = RESTING,
              !.exerciseIndex = p.exerciseIndex + 1,
              !.restDuration = cursorExercise(w, p).restAfterSet]

completeSetCase2SkipsSet(w, p) ==
    [p EXCEPT !.phase = RESTING,
              !.exerciseIndex = p.exerciseIndex + 1,
              !.currentSet = 2,
              !.restDuration = cursorExercise(w, p).restAfterSet]

\* Case 2 result: rest, then the next exercise of this section
completeSetCase2(w, p) ==
    [p EXCEPT !.phase = RESTING,
              !.exerciseIndex = p.exerciseIndex + 1,
              !.currentSet = 1,
              !.restDuration = cursorExercise(w, p).restAfterSet]

completeSetCase3StaysInSection(w, p) ==
    [p EXCEPT !.phase = RESTING,
              !.exerciseIndex = 0,
              !.currentSet = 1,
              !.restDuration = cursorExercise(w, p).restAfterSet]

completeSetCase3KeepsExercise(w, p) ==
    [p EXCEPT !.phase = RESTING,
              !.sectionIndex = p.sectionIndex + 1,
              !.currentSet = 1,
              !.restDuration = cursorExercise(w, p).restAfterSet]

completeSetCase3RestOfNext(w, p) ==
    [p EXCEPT !.phase = RESTING,
              !.sectionIndex = p.sectionIndex + 1,
              !.exerciseIndex = 0,
              !.currentSet = 1,
              !.restDuration = exerciseAt(w, p.sectionIndex + 1, 0).restAfterSet]

\* Case 3 result: rest, then the first exercise of the next section
completeSetCase3(w, p) ==
    [p EXCEPT !.phase = RESTING,
              !.sectionIndex = p.sectionIndex + 1,
              !.exerciseIndex = 0,
              !.currentSet = 1,
              !.restDuration = cursorExercise(w, p).restAfterSet]

completeSetCase4SetsRest(w, p) ==
    [p EXCEPT !.phase = COMPLETED,
              !.restDuration = cursorExercise(w, p).restAfterSet]

\* Case 4 result: everything is done
completeSetCase4(w, p) == [p EXCEPT !.phase = COMPLETED]

completeSetUpdaterCompletesOnGuard(w, p) ==
    IF cursorUnresolved(w, p) THEN [p EXCEPT !.phase = COMPLETED]
    ELSE IF hasMoreSets(w, p) THEN completeSetCase1(w, p)
    ELSE IF hasNextExercise(w, p) THEN completeSetCase2(w, p)
    ELSE IF hasNextSection(w, p) THEN completeSetCase3(w, p)
    ELSE completeSetCase4(w, p)

\* The updater completeSet passes to setState
completeSetUpdater(w, p) ==
    IF cursorUnresolved(w, p) THEN p
    ELSE IF hasMoreSets(w, p) THEN completeSetCase1(w, p)
    ELSE IF hasNextExercise(w, p) THEN completeSetCase2(w, p)
    ELSE IF hasNextSection(w, p) THEN completeSetCase3(w, p)
    ELSE completeSetCase4(w, p)

afterRestUpdaterNoGuard(w, p) == [p EXCEPT !.phase = EXERCISING]

\* The updater afterRest passes to setState
afterRestUpdater(w, p) ==
    IF p.phase # RESTING THEN p ELSE [p EXCEPT !.phase = EXERCISING]

restartValueKeepsRest(w, p) == [INITIAL_STATE EXCEPT !.restDuration = p.restDuration]

\* The value restartWorkout passes to setState
restartValue(w, p) == INITIAL_STATE

\* The end-to-end call sequence start(), completeSet(), afterRest(), completeSet()
ScenarioCalls == <<"startWorkout", "completeSet", "afterRest", "completeSet">>

\* The workout of the end-to-end scenario: one section with one exercise of
\* 2 sets and 5 seconds of rest (its duration is not read by the transitions)
ScenarioWorkout == << << [sets |-> 2, restAfterSet |-> 5] >> >>

\* The position in ScenarioCalls after calling op at position step
nextScenarioStep(step, op) ==
    IF step >= 0 /\ step < Len(ScenarioCalls) /\ ScenarioCalls[step + 1] = op
    THEN step + 1 ELSE -1

-----------------------------------------------------------------------------
\* useTimer

\* TimerStatus
TimerStatus == {"idle", "running", "paused", "finished"}

\* intervalRef.current = null
NoInterval == 0

\* start() called without a duration (duration is undefined)
NoDuration == -1

\* No callback was invoked yet
NoCallback == 0

\* No pause()-then-resume() is in progress
NoResume == [active |-> FALSE, timeRemaining |-> 0, totalTime |-> 0, ticks |-> 0]

\* The state of the hook, as recorded in timerPrev
timerSnapshot ==
    [timeRemaining |-> timeRemaining, totalTime |-> totalTime, status |-> status,
     intervalRef |-> intervalRef, intervals |-> intervals, lifecycle |-> lifecycle,
     op |-> timerOp, startArg |-> startArg]

\* useTimer(d, onComplete) on mount: the useState and useRef initial values
timerMounted(d) ==
    /\ initialDuration = d
    /\ timeRemaining = d
    /\ totalTime = d
    /\ status = "idle"
    /\ renderedStatus = "idle"
    /\ intervalRef = NoInterval
    /\ intervals = {}
    /\ completions = 0
    /\ ticks = 0
    /\ run = "none"
    /\ timerPrev = [timeRemaining |-> d, totalTime |-> d, status |-> "idle",
                    intervalRef |-> NoInterval, intervals |-> {},
                    lifecycle |-> "mounted", op |-> "init",
                    startArg |-> NoDuration]
    /\ timerOp = "init"
    /\ lifecycle = "mounted"
    /\ sinceReset = FALSE
    /\ resumed = NoResume
    /\ onComplete = 1
    /\ onCompleteRef = 1
    /\ installedCallback = 1
    /\ invoked = NoCallback
    /\ startArg = NoDuration

\* clearIntervalSafe(): the intervals left alive
clearIntervalSkipped(ref, ivs) == ivs

clearIntervalSafe(ref, ivs) == IF ref # NoInterval THEN ivs \ {ref} ELSE ivs

\* The ids setInterval can return: those of no live interval
freeIntervals(ivs) == (1..MaxIntervals) \ ivs

\* setInterval(...): the id of the new interval
setInterval(ivs) == CHOOSE i \in freeIntervals(ivs) : \A j \in freeIntervals(ivs) : i <= j

\* duration ?? initialDuration
startDuration(duration, initial) == IF duration = NoDuration THEN initial ELSE duration

\* pause() and resume() end an undisturbed run
disturbed(r) == IF r = "none" THEN "none" ELSE "disturbed"

\* A useState setter: React drops the update once the component is unmounted
setState(old, new) == IF lifecycle = "mounted" THEN new ELSE old

\* A control called after the cleanup effect ran
afterCall(l) == IF l = "mounted" THEN "mounted" ELSE "used"

tickUpdaterNoClamp(t) == t - 1

\* The updater the interval callback passes to setTimeRemaining: its result
tickUpdater(t) == IF t <= 1 THEN 0 ELSE t - 1

tickFinishesOnlyAtOne(t) == t = 1

\* The updater's branch that stops the timer and calls onComplete
tickFinishes(t) == t <= 1

completionCallbackCaptured(ref, installed) == installed

\* onCompleteRef.current?.(): the callback that runs
completionCallback(ref, installed) == ref

-----------------------------------------------------------------------------
\* WorkoutRunner

\* The screens of the main content; a timer is mounted on the timed ones
Timed == {"timer", "rest"}

\* No key: ReadyScreen and CompletionScreen are rendered without one
NoKey == << >>

\* typeof duration === 'number': a number is the record of its seconds
isNumber(d) == DOMAIN d = {"seconds"}

getTimerDurationRoundsDown(d) ==
    IF isNumber(d) THEN d.seconds ELSE (d.min + d.max) \div 2

\* Math.round((min + max) / 2) for a range, the number itself otherwise
getTimerDuration(d) ==
    IF isNumber(d) THEN d.seconds ELSE (d.min + d.max + 1) \div 2

isTimerExercise(e) == e.type = "timer"

\* null (NoDuration) for a reps exercise and when the cursor resolves to nothing
currentTimerDuration(w, s) ==
    IF ~cursorUnresolved(w, s) /\ isTimerExercise(cursorExercise(w, s))
    THEN getTimerDuration(cursorExercise(w, s).duration)
    ELSE NoDuration

\* The exercises of the workouts the runner is checked with
RunnerExercise ==
    [type : {"timer"}, sets : 1..MaxSets, restAfterSet : 0..MaxRest,
     duration : [seconds : {0, MaxDuration}]]
    \cup [type : {"reps"}, sets : 1..MaxSets, restAfterSet : 0..MaxRest,
          reps : {1}]

RECURSIVE RunnerWorkoutsOf(_)
\* The workouts of exactly n exercises, sections of 1..MaxExercises exercises
RunnerWorkoutsOf(n) ==
    IF n = 0 THEN {<< >>}
    ELSE UNION {{<<sec>> \o rest : sec \in [1..k -> RunnerExercise],
                                   rest \in RunnerWorkoutsOf(n - k)} :
                k \in {j \in 1..n : j <= MaxExercises}}

\* The well-formed workouts of at most MaxRunnerExercises exercises
RunnerWorkout ==
    {w \in UNION {RunnerWorkoutsOf(n) : n \in 1..MaxRunnerExercises} :
        Len(w) <= MaxSections}

\* `${state.sectionIndex}-${state.exerciseIndex}-${state.currentSet}`
exerciseKey(s) == <<s.sectionIndex, s.exerciseIndex, s.currentSet>>

\* The main content WorkoutRunner renders for the session state s
viewOf(w, s) ==
    IF s.phase = IDLE THEN [screen |-> "ready", key |-> NoKey]
    ELSE IF s.phase = EXERCISING
    THEN IF cursorUnresolved(w, s) THEN [screen |-> "blank", key |-> NoKey]
         ELSE IF currentTimerDuration(w, s) # NoDuration
         THEN [screen |-> "timer", key |-> exerciseKey(s)]
         ELSE [screen |-> "reps", key |-> exerciseKey(s)]
    ELSE IF s.phase = RESTING THEN [screen |-> "rest", key |-> exerciseKey(s)]
    ELSE [screen |-> "completed", key |-> NoKey]

\* The parent rendered something else in place of WorkoutRunner
Exited == [screen |-> "exited", key |-> NoKey]

\* The duration prop of the timed component rendered for s
phaseDuration(w, s) ==
    IF s.phase = EXERCISING THEN currentTimerDuration(w, s) ELSE s.restDuration

sameInstanceAcrossTimers(a, b) ==
    a = b \/ (a.screen \in Timed /\ b.screen \in Timed)

\* React keeps a component instance when its place, type and key are the same
sameInstance(a, b) == a.screen = b.screen /\ a.key = b.key

unmountCleanupSkipped(ref, ivs) == ivs

\* The intervals left alive by the cleanup of the mount effect
unmountCleanup(ref, ivs) == clearIntervalSafe(ref, ivs)

\* No WorkoutRunner is rendered
runnerAbsent ==
    /\ view = [screen |-> "none", key |-> NoKey]
    /\ orphans = 0
    /\ enteredBy = "none"
    /\ discarded = FALSE

\* The calls and the rendered cursors are not counted
driveAbsent ==
    /\ completeSetCalls = 0
    /\ afterRestCalls = 0
    /\ visited = << >>

\* No update is queued, and currentTimerDuration is not observed
hookAbsent ==
    /\ pending = << >>
    /\ batch = << >>
    /\ timerDuration = NoDuration

-----------------------------------------------------------------------------
\* useTimer: the controls, the interval callback and the renders

\* start(duration?): clear the interval of intervalRef, set the duration, run
start(duration) ==
    LET cleared == clearIntervalSafe(intervalRef, intervals)
        d == startDuration(duration, initialDuration)
    IN /\ freeIntervals(cleared) # {}
       /\ totalTime' = setState(totalTime, d)
       /\ timeRemaining' = setState(timeRemaining, d)
       /\ status' = setState(status, "running")
       /\ intervalRef' = setInterval(cleared)
       /\ intervals' = cleared \cup {setInterval(cleared)}
       /\ installedCallback' = onCompleteRef
       /\ completions' = 0
       /\ ticks' = 0
       /\ run' = "alone"
       /\ sinceReset' = FALSE
       /\ resumed' = NoResume
       /\ invoked' = NoCallback
       /\ timerPrev' = timerSnapshot
       /\ timerOp' = "start"
       /\ startArg' = duration
       /\ lifecycle' = afterCall(lifecycle)
       /\ UNCHANGED <<initialDuration, renderedStatus, onComplete, onCompleteRef,
                      sessionVars, runnerVars, driveVars, hookVars>>

\* The callback of setInterval, run for the live interval i.  On an unmounted
\* component React may or may not run the updater (ran) and drops its result.
tick(i) ==
    /\ i \in intervals
    /\ ticks < MaxTicks
    /\ \E ran \in (IF lifecycle = "mounted" THEN {TRUE} ELSE BOOLEAN) :
         IF ran /\ tickFinishes(timeRemaining)
         THEN /\ intervals' = clearIntervalSafe(intervalRef, intervals)
              /\ intervalRef' = NoInterval
              /\ status' = setState(status, "finished")
              /\ completions' = completions + 1
              /\ invoked' = completionCallback(onCompleteRef, installedCallback)
              /\ timeRemaining' = setState(timeRemaining, tickUpdater(timeRemaining))
         ELSE /\ timeRemaining' =
                   IF ran THEN setState(timeRemaining, tickUpdater(timeRemaining))
                   ELSE timeRemaining
              /\ UNCHANGED <<intervals, intervalRef, status, completions, invoked>>
    /\ ticks' = ticks + 1
    /\ resumed' = IF resumed.active
                  THEN [resumed EXCEPT !.ticks = resumed.ticks + 1] ELSE resumed
    /\ timerPrev' = timerSnapshot
    /\ timerOp' = "tick"
    /\ UNCHANGED <<initialDuration, totalTime, renderedStatus, run, lifecycle,
                   sinceReset, onComplete, onCompleteRef, installedCallback,
                   startArg, sessionVars, runnerVars, driveVars, hookVars>>

pause ==
    /\ intervals' = clearIntervalSafe(intervalRef, intervals)
    /\ intervalRef' = NoInterval
    /\ status' = setState(status, "paused")
    /\ run' = disturbed(run)
    /\ resumed' = NoResume
    /\ timerPrev' = timerSnapshot
    /\ timerOp' = "pause"
    /\ lifecycle' = afterCall(lifecycle)
    /\ UNCHANGED <<initialDuration, timeRemaining, totalTime, renderedStatus,
                   completions, ticks, sinceReset, onComplete, onCompleteRef,
                   installedCallback, invoked, startArg, sessionVars, runnerVars, driveVars, hookVars>>

resume ==
    /\ IF renderedStatus # "paused"
       THEN UNCHANGED <<status, intervalRef, intervals, installedCallback>>
       ELSE /\ freeIntervals(intervals) # {}
            /\ status' = setState(status, "running")
            /\ intervalRef' = setInterval(intervals)
            /\ intervals' = intervals \cup {setInterval(intervals)}
            /\ installedCallback' = onCompleteRef
    /\ run' = disturbed(run)
    /\ resumed' =
         IF timerOp = "pause" /\ timerPrev.status = "running" /\ lifecycle = "mounted"
         THEN [active |-> TRUE, timeRemaining |-> timerPrev.timeRemaining,
               totalTime |-> timerPrev.totalTime, ticks |-> 0]
         ELSE NoResume
    /\ timerPrev' = timerSnapshot
    /\ timerOp' = "resume"
    /\ lifecycle' = afterCall(lifecycle)
    /\ UNCHANGED <<initialDuration, timeRemaining, totalTime, renderedStatus,
                   completions, ticks, sinceReset, onComplete, onCompleteRef,
                   invoked, startArg, sessionVars, runnerVars, driveVars, hookVars>>

reset ==
    /\ intervals' = clearIntervalSafe(intervalRef, intervals)
    /\ intervalRef' = NoInterval
    /\ timeRemaining' = setState(timeRemaining, initialDuration)
    /\ totalTime' = setState(totalTime, initialDuration)
    /\ status' = setState(status, "idle")
    /\ completions' = 0
    /\ ticks' = 0
    /\ run' = "none"
    /\ sinceReset' = TRUE
    /\ resumed' = NoResume
    /\ invoked' = NoCallback
    /\ timerPrev' = timerSnapshot
    /\ timerOp' = "reset"
    /\ lifecycle' = afterCall(lifecycle)
    /\ UNCHANGED <<initialDuration, renderedStatus, onComplete, onCompleteRef,
                   installedCallback, startArg, sessionVars, runnerVars, driveVars, hookVars>>

\* A re-render: the callbacks handed out from now on read the current status
render ==
    /\ lifecycle = "mounted"
    /\ renderedStatus # status
    /\ renderedStatus' = status
    /\ UNCHANGED <<initialDuration, timeRemaining, totalTime, status, intervalRef,
                   intervals, completions, ticks, run, timerPrev, timerOp,
                   lifecycle, sinceReset, resumed, onComplete, onCompleteRef,
                   installedCallback, invoked, startArg, sessionVars, runnerVars, driveVars, hookVars>>

\* A re-render in which the caller passes the callback cb: the effect that
\* follows every render stores it in onCompleteRef
supplyCallback(cb) ==
    /\ lifecycle = "mounted"
    /\ onComplete' = cb
    /\ onCompleteRef' = cb
    /\ renderedStatus' = status
    /\ timerPrev' = timerSnapshot
    /\ timerOp' = "supply"
    /\ UNCHANGED <<initialDuration, timeRemaining, totalTime, status, intervalRef,
                   intervals, completions, ticks, run, lifecycle, sinceReset,
                   resumed, installedCallback, invoked, startArg, sessionVars, runnerVars, driveVars, hookVars>>

\* The cleanup of the mount effect, run when the component unmounts: it clears
\* the interval of intervalRef and leaves intervalRef.current as it is
unmount ==
    /\ lifecycle = "mounted"
    /\ intervals' = unmountCleanup(intervalRef, intervals)
    /\ lifecycle' = "unmounted"
    /\ resumed' = NoResume
    /\ timerPrev' = timerSnapshot
    /\ timerOp' = "unmount"
    /\ UNCHANGED <<initialDuration, timeRemaining, totalTime, status,
                   renderedStatus, intervalRef, completions, ticks, run,
                   sinceReset, onComplete, onCompleteRef, installedCallback,
                   invoked, startArg, sessionVars, runnerVars, driveVars, hookVars>>

-----------------------------------------------------------------------------
\* useWorkout

Init ==
    /\ timerMounted(0)
    /\ workout \in Workout
    /\ state = INITIAL_STATE
    /\ prev = INITIAL_STATE
    /\ lastOp = "init"
    /\ scenarioStep = 0
    /\ runnerAbsent
    /\ driveAbsent
    /\ hookAbsent

startWorkout ==
    /\ state' = startUpdater(workout, state)
    /\ prev' = state
    /\ lastOp' = "startWorkout"
    /\ scenarioStep' = nextScenarioStep(scenarioStep, "startWorkout")
    /\ UNCHANGED <<workout, timerVars, runnerVars, driveVars, hookVars>>

completeSet ==
    /\ state' = completeSetUpdater(workout, state)
    /\ prev' = state
    /\ lastOp' = "completeSet"
    /\ scenarioStep' = nextScenarioStep(scenarioStep, "completeSet")
    /\ UNCHANGED <<workout, timerVars, runnerVars, driveVars, hookVars>>

afterRest ==
    /\ state' = afterRestUpdater(workout, state)
    /\ prev' = state
    /\ lastOp' = "afterRest"
    /\ scenarioStep' = nextScenarioStep(scenarioStep, "afterRest")
    /\ UNCHANGED <<workout, timerVars, runnerVars, driveVars, hookVars>>

restartWorkout ==
    /\ state' = restartValue(workout, state)
    /\ prev' = state
    /\ lastOp' = "restartWorkout"
    /\ scenarioStep' = nextScenarioStep(scenarioStep, "restartWorkout")
    /\ UNCHANGED <<workout, timerVars, runnerVars, driveVars, hookVars>>

Next == startWorkout \/ completeSet \/ afterRest \/ restartWorkout

Spec == Init /\ [][Next]_vars

\* The timer on its own, driven by any caller; the session stays as constructed
TimerInit ==
    /\ \E d \in 0..MaxDuration : timerMounted(d)
    /\ workout = << >>
    /\ state = INITIAL_STATE
    /\ prev = INITIAL_STATE
    /\ lastOp = "init"
    /\ scenarioStep = 0
    /\ runnerAbsent
    /\ driveAbsent
    /\ hookAbsent

TimerNext ==
    \/ \E duration \in {NoDuration} \cup (0..MaxDuration) : start(duration)
    \/ \E i \in 1..MaxIntervals : tick(i)
    \/ pause
    \/ resume
    \/ reset
    \/ render
    \/ \E cb \in 1..MaxCallbacks : supplyCallback(cb)

TimerSpec == TimerInit /\ [][TimerNext]_vars

\* The timer with its teardown, and the calls a caller can still make after it
TeardownNext == TimerNext \/ unmount

TeardownSpec == TimerInit /\ [][TeardownNext]_vars

-----------------------------------------------------------------------------
\* WorkoutRunner: the handlers and the commits

\* The variables of the timer that the runner's components do not read
timerGhosts ==
    <<ticks, run, sinceReset, resumed, onComplete, onCompleteRef,
      installedCallback, invoked, startArg>>

\* A transition function of useWorkout was called and gave next
sessionCall(op, next) ==
    /\ state' = next
    /\ prev' = state
    /\ lastOp' = op
    /\ UNCHANGED <<workout, scenarioStep, driveVars, hookVars>>

\* The handler called no transition function
noSessionCall == sessionCall("none", state)

\* A timed component mounts with duration d: the useState initial values,
\* then the mount effect calls timer.start()
timerFresh(d) ==
    /\ initialDuration' = d
    /\ totalTime' = startDuration(NoDuration, d)
    /\ timeRemaining' = startDuration(NoDuration, d)
    /\ status' = "running"
    /\ renderedStatus' = "idle"
    /\ intervalRef' = setInterval({})
    /\ intervals' = {setInterval({})}
    /\ completions' = 0
    /\ lifecycle' = "mounted"

\* No timed component is mounted
timerGone ==
    /\ initialDuration' = 0
    /\ totalTime' = 0
    /\ timeRemaining' = 0
    /\ status' = "idle"
    /\ renderedStatus' = "idle"
    /\ intervalRef' = NoInterval
    /\ intervals' = {}
    /\ completions' = 0
    /\ lifecycle' = "unmounted"

\* The timed component stays mounted and re-renders with the status st
timerKept(st, ref, ivs) ==
    /\ status' = st
    /\ renderedStatus' = st
    /\ intervalRef' = ref
    /\ intervals' = ivs
    /\ UNCHANGED <<initialDuration, totalTime, timeRemaining, completions, lifecycle>>

\* React renders and commits the session state next after a handler left the
\* timer with status st, intervalRef ref and the live intervals ivs: a
\* component whose place, type or key changed is unmounted (its cleanup runs)
\* and the new one is mounted
commitTo(v, next, st, ref, ivs) ==
    /\ view' = v
    /\ enteredBy' = IF enteredBy = "pending" \/ next # state
                    THEN "committed" ELSE "none"
    /\ timerPrev' = timerSnapshot
    /\ UNCHANGED timerGhosts
    /\ IF sameInstance(view, v)
       THEN /\ timerKept(st, ref, ivs)
            /\ UNCHANGED <<orphans, discarded>>
       ELSE /\ orphans' = IF view.screen \in Timed
                          THEN orphans + Cardinality(unmountCleanup(ref, ivs))
                          ELSE orphans
            /\ discarded' = (view.screen \in Timed /\ ivs # {})
            /\ IF v.screen \in Timed
               THEN timerFresh(phaseDuration(workout, next))
               ELSE timerGone

\* "Begin Workout" on the ReadyScreen: onStart = startWorkout
clickBegin ==
    /\ view.screen = "ready"
    /\ LET next == startUpdater(workout, state)
       IN /\ sessionCall("startWorkout", next)
          /\ commitTo(viewOf(workout, next), next, status, intervalRef, intervals)
    /\ timerOp' = "begin"

\* "Skip" of TimerExerciseUI: onComplete = completeSet
clickSkip ==
    /\ view.screen = "timer"
    /\ LET next == completeSetUpdater(workout, state)
       IN /\ sessionCall("completeSet", next)
          /\ commitTo(viewOf(workout, next), next, status, intervalRef, intervals)
    /\ timerOp' = "skip"

\* "Done with Set" of RepsExerciseUI: onComplete = completeSet
clickDone ==
    /\ view.screen = "reps"
    /\ LET next == completeSetUpdater(workout, state)
       IN /\ sessionCall("completeSet", next)
          /\ commitTo(viewOf(workout, next), next, status, intervalRef, intervals)
    /\ timerOp' = "done"

\* "Skip Rest" of RestPeriodUI: onComplete = afterRest
clickSkipRest ==
    /\ view.screen = "rest"
    /\ LET next == afterRestUpdater(workout, state)
       IN /\ sessionCall("afterRest", next)
          /\ commitTo(viewOf(workout, next), next, status, intervalRef, intervals)
    /\ timerOp' = "skipRest"

\* "Pause" of TimerExerciseUI, rendered while timer.status === 'running'
clickPause ==
    /\ view.screen = "timer"
    /\ renderedStatus = "running"
    /\ noSessionCall
    /\ commitTo(viewOf(workout, state), state, "paused", NoInterval,
                clearIntervalSafe(intervalRef, intervals))
    /\ timerOp' = "pause"

\* "Resume" of TimerExerciseUI, rendered while timer.status === 'paused': the
\* resume of that render reads 'paused' and installs an interval
clickResume ==
    /\ view.screen = "timer"
    /\ renderedStatus = "paused"
    /\ freeIntervals(intervals) # {}
    /\ noSessionCall
    /\ commitTo(viewOf(workout, state), state, "running", setInterval(intervals),
                intervals \cup {setInterval(intervals)})
    /\ timerOp' = "resume"

\* "Do it Again" of the CompletionScreen: handleRestart
clickRestart ==
    /\ view.screen = "completed"
    /\ LET next == restartValue(workout, state)
       IN /\ sessionCall("restartWorkout", next)
          /\ commitTo(viewOf(workout, next), next, status, intervalRef, intervals)
    /\ timerOp' = "restart"

\* "Back" of the header, or "Back to Plan": onExit makes the parent unmount
\* WorkoutRunner
clickBack ==
    /\ view.screen # "exited"
    /\ noSessionCall
    /\ commitTo(Exited, state, status, intervalRef, intervals)
    /\ timerOp' = "back"

\* The interval callback of the mounted timer; on reaching 0 it calls the
\* onComplete of the last render (completeSet, resp. afterRest), whose
\* updater receives the latest session state.  React renders later.
runnerTick(i) ==
    /\ view.screen \in Timed
    /\ i \in intervals
    /\ timeRemaining' = tickUpdater(timeRemaining)
    /\ IF tickFinishes(timeRemaining)
       THEN /\ intervals' = clearIntervalSafe(intervalRef, intervals)
            /\ intervalRef' = NoInterval
            /\ status' = "finished"
            /\ completions' = completions + 1
            /\ IF view.screen = "timer"
               THEN sessionCall("completeSet", completeSetUpdater(workout, state))
               ELSE sessionCall("afterRest", afterRestUpdater(workout, state))
       ELSE /\ noSessionCall
            /\ UNCHANGED <<intervals, intervalRef, status, completions>>
    /\ enteredBy' = IF state' # state \/ enteredBy = "pending"
                    THEN "pending" ELSE "none"
    /\ timerPrev' = timerSnapshot
    /\ timerOp' = "tick"
    /\ UNCHANGED <<initialDuration, totalTime, renderedStatus, lifecycle, view,
                   orphans, discarded, timerGhosts>>

\* The render React scheduled for the state updates of the mount effect or of a tick
runnerRender ==
    /\ view.screen # "exited"
    /\ renderedStatus # status \/ viewOf(workout, state) # view
    /\ noSessionCall
    /\ commitTo(viewOf(workout, state), state, status, intervalRef, intervals)
    /\ timerOp' = "render"

\* WorkoutRunner mounted on a workout: the ReadyScreen, no timer
RunnerInit ==
    /\ workout \in RunnerWorkout
    /\ state = INITIAL_STATE
    /\ prev = INITIAL_STATE
    /\ lastOp = "init"
    /\ scenarioStep = 0
    /\ view = viewOf(workout, INITIAL_STATE)
    /\ orphans = 0
    /\ enteredBy = "none"
    /\ discarded = FALSE
    /\ driveAbsent
    /\ hookAbsent
    /\ initialDuration = 0
    /\ timeRemaining = 0
    /\ totalTime = 0
    /\ status = "idle"
    /\ renderedStatus = "idle"
    /\ intervalRef = NoInterval
    /\ intervals = {}
    /\ completions = 0
    /\ ticks = 0
    /\ run = "none"
    /\ timerPrev = [timeRemaining |-> 0, totalTime |-> 0, status |-> "idle",
                    intervalRef |-> NoInterval, intervals |-> {},
                    lifecycle |-> "unmounted", op |-> "init",
                    startArg |-> NoDuration]
    /\ timerOp = "init"
    /\ lifecycle = "unmounted"
    /\ sinceReset = FALSE
    /\ resumed = NoResume
    /\ onComplete = NoCallback
    /\ onCompleteRef = NoCallback
    /\ installedCallback = NoCallback
    /\ invoked = NoCallback
    /\ startArg = NoDuration

RunnerNext ==
    \/ clickBegin
    \/ clickSkip
    \/ clickDone
    \/ clickSkipRest
    \/ clickPause
    \/ clickResume
    \/ clickRestart
    \/ clickBack
    \/ \E i \in 1..MaxIntervals : runnerTick(i)
    \/ runnerRender

RunnerSpec == RunnerInit /\ [][RunnerNext]_vars

RunnerTypeOK ==
    /\ state.phase \in WorkoutPhase
    /\ status \in TimerStatus
    /\ view.screen \in {"ready", "timer", "reps", "rest", "completed", "exited"}
    /\ view.screen \in Timed <=> lifecycle = "mounted"
    /\ intervalRef \in {NoInterval} \cup intervals

TimerTypeOK ==
    /\ status \in TimerStatus
    /\ renderedStatus \in TimerStatus
    /\ lifecycle = "mounted" => intervalRef \in {NoInterval} \cup intervals
    /\ intervals \subseteq 1..MaxIntervals
    /\ run \in {"none", "alone", "disturbed"}

TypeOK ==
    /\ workout \in Workout
    /\ state.phase \in WorkoutPhase
    /\ lastOp \in {"init", "startWorkout", "completeSet", "afterRest", "restartWorkout"}

-----------------------------------------------------------------------------
\* Shorthands for the properties below

\* The last call was completeSet, made while Exercising with a resolvable cursor
completeSetWhileExercising ==
    /\ lastOp = "completeSet"
    /\ prev.phase = EXERCISING
    /\ ~cursorUnresolved(workout, prev)

\* The exercise at the cursor is the last one of its section
lastExerciseOfSection(w, p) == p.exerciseIndex = Len(sectionAt(w, p.sectionIndex)) - 1

\* The section at the cursor is the last one of the workout
lastSection(w, p) == p.sectionIndex = Len(w) - 1

-----------------------------------------------------------------------------
\* C1: for a well-formed workout, in the state reached by the completeSet()
\* call that first sets phase = Completed (made while Exercising),
\* completedExercises equals totalExercises.
C1_CompletedCountsAll ==
    (/\ WellFormed(workout)
     /\ lastOp = "completeSet"
     /\ prev.phase = EXERCISING
     /\ state.phase = COMPLETED)
    => completedExercises(workout, state) = totalExercises(workout)

\* C2: for a well-formed workout, completedExercises is 0 in the initial
\* state and no completeSet() or afterRest() call decreases it.
C2_CompletedMonotone ==
    WellFormed(workout) =>
      /\ lastOp = "init" => completedExercises(workout, state) = 0
      /\ lastOp \in {"completeSet", "afterRest"} =>
           completedExercises(workout, state) >= completedExercises(workout, prev)

\* C2 witness: a completeSet() that moved to the next section of a
\* well-formed workout, so that completedExercises grew.
C2_Witness ==
    /\ WellFormed(workout)
    /\ lastOp = "completeSet"
    /\ state.sectionIndex = prev.sectionIndex + 1
    /\ prev.exerciseIndex = 1
    /\ completedExercises(workout, state) > completedExercises(workout, prev)

\* C3: once phase = Completed, start(), completeSet() and afterRest() all
\* leave phase = Completed.
C3_CompletedAbsorbing ==
    (/\ prev.phase = COMPLETED
     /\ lastOp \in {"startWorkout", "completeSet", "afterRest"})
    => state.phase = COMPLETED

\* C4: completeSet() called while Idle, Resting or Completed is a no-op:
\* phase, sectionIndex, exerciseIndex, currentSet and restDuration are unchanged.
C4_CompleteSetOnlyFromExercising ==
    (/\ lastOp = "completeSet"
     /\ prev.phase \in {IDLE, RESTING, COMPLETED})
    => /\ state.phase = prev.phase
       /\ state.sectionIndex = prev.sectionIndex
       /\ state.exerciseIndex = prev.exerciseIndex
       /\ state.currentSet = prev.currentSet
       /\ state.restDuration = prev.restDuration

\* C5: start() called while Exercising, Resting or Completed is a no-op that
\* leaves the whole state unchanged.
C5_StartOnlyFromIdle ==
    (/\ lastOp = "startWorkout"
     /\ prev.phase \in {EXERCISING, RESTING, COMPLETED})
    => state = prev

\* C6: completeSet() in Exercising with currentSet < exercise.sets keeps
\* sectionIndex and exerciseIndex, increments currentSet by exactly 1, sets
\* phase = Resting and restDuration = the current exercise's restAfterSet.
C6_MoreSetsRemain ==
    (/\ completeSetWhileExercising
     /\ prev.currentSet < cursorExercise(workout, prev).sets)
    => /\ state.sectionIndex = prev.sectionIndex
       /\ state.exerciseIndex = prev.exerciseIndex
       /\ state.currentSet = prev.currentSet + 1
       /\ state.phase = RESTING
       /\ state.restDuration = cursorExercise(workout, prev).restAfterSet

\* C6 witness: such a call happened, on an exercise whose restAfterSet
\* differs from the restDuration held before the call.
C6_Witness ==
    /\ completeSetWhileExercising
    /\ prev.currentSet < cursorExercise(workout, prev).sets
    /\ cursorExercise(workout, prev).restAfterSet # prev.restDuration
    /\ state.phase = RESTING

\* C7: completeSet() in Exercising on the last set of an exercise that is not
\* the last of its section advances exerciseIndex by exactly 1, resets
\* currentSet to 1, keeps sectionIndex and sets phase = Resting (the result of
\* the exercise-advance branch and of no other).
C7_NextExercise ==
    (/\ completeSetWhileExercising
     /\ prev.currentSet = cursorExercise(workout, prev).sets
     /\ ~lastExerciseOfSection(workout, prev))
    => /\ state.exerciseIndex = prev.exerciseIndex + 1
       /\ state.currentSet = 1
       /\ state.sectionIndex = prev.sectionIndex
       /\ state.phase = RESTING

\* C7 witness: such a call happened after a multi-set exercise in a workout
\* that has a further section.
C7_Witness ==
    /\ completeSetWhileExercising
    /\ prev.currentSet = cursorExercise(workout, prev).sets
    /\ prev.currentSet > 1
    /\ ~lastExerciseOfSection(workout, prev)
    /\ ~lastSection(workout, prev)
    /\ state.exerciseIndex = 1

\* C8: completeSet() in Exercising on the last set of the last exercise of a
\* section that is not the last advances sectionIndex by exactly 1, resets
\* exerciseIndex to 0 and currentSet to 1, and sets phase = Resting.
C8_NextSection ==
    (/\ completeSetWhileExercising
     /\ prev.currentSet = cursorExercise(workout, prev).sets
     /\ lastExerciseOfSection(workout, prev)
     /\ ~lastSection(workout, prev))
    => /\ state.sectionIndex = prev.sectionIndex + 1
       /\ state.exerciseIndex = 0
       /\ state.currentSet = 1
       /\ state.phase = RESTING

\* C8 witness: such a call happened from the second exercise, on its second
\* set, so that both resets changed a value.
C8_Witness ==
    /\ completeSetWhileExercising
    /\ prev.currentSet = cursorExercise(workout, prev).sets
    /\ prev.currentSet = 2
    /\ prev.exerciseIndex = 1
    /\ lastExerciseOfSection(workout, prev)
    /\ ~lastSection(workout, prev)
    /\ state.sectionIndex = 1

\* C9: completeSet() in Exercising on the last set of the last exercise of
\* the last section sets phase = Completed and changes nothing else.
C9_Completion ==
    (/\ completeSetWhileExercising
     /\ prev.currentSet = cursorExercise(workout, prev).sets
     /\ lastExerciseOfSection(workout, prev)
     /\ lastSection(workout, prev))
    => /\ state.phase = COMPLETED
       /\ state.sectionIndex = prev.sectionIndex
       /\ state.exerciseIndex = prev.exerciseIndex
       /\ state.currentSet = prev.currentSet
       /\ state.restDuration = prev.restDuration

\* C9 witness: such a call happened on an exercise whose restAfterSet differs
\* from the restDuration held before the call.
C9_Witness ==
    /\ completeSetWhileExercising
    /\ prev.currentSet = cursorExercise(workout, prev).sets
    /\ lastExerciseOfSection(workout, prev)
    /\ lastSection(workout, prev)
    /\ cursorExercise(workout, prev).restAfterSet # prev.restDuration
    /\ state.phase = COMPLETED

\* C10: for a well-formed workout, in every reachable state: while phase is
\* not Completed the cursor is within the workout; currentSet >= 1; and while
\* Exercising, currentSet <= sets of the exercise at the cursor.
C10_CursorInvariant ==
    WellFormed(workout) =>
      /\ state.phase # COMPLETED =>
           /\ 0 <= state.sectionIndex
           /\ state.sectionIndex < Len(workout)
           /\ 0 <= state.exerciseIndex
           /\ state.exerciseIndex < Len(sectionAt(workout, state.sectionIndex))
      /\ state.currentSet >= 1
      /\ state.phase = EXERCISING =>
           /\ ~cursorUnresolved(workout, state)
           /\ state.currentSet <= cursorExercise(workout, state).sets

\* C10 witness: Exercising again after a rest, on the last set of the last
\* exercise of the last section of a two-section workout.
C10_Witness ==
    /\ WellFormed(workout)
    /\ lastOp = "afterRest"
    /\ state.phase = EXERCISING
    /\ state.sectionIndex = 1
    /\ state.exerciseIndex = 1
    /\ state.currentSet = 2

C12_RestartIsInitial ==
    lastOp = "restartWorkout" =>
      /\ state.phase = IDLE
      /\ state.sectionIndex = 0
      /\ state.exerciseIndex = 0
      /\ state.currentSet = 1
      /\ state.restDuration = 0

\* C12 witness: restart() was called during a rest in which no field had its
\* initial value.
C12_Witness ==
    /\ lastOp = "restartWorkout"
    /\ prev.phase = RESTING
    /\ prev.sectionIndex = 1
    /\ prev.exerciseIndex = 1
    /\ prev.currentSet = 2
    /\ prev.restDuration > 0
    /\ state.phase = IDLE

\* C13: start() called from Idle sets phase = Exercising and leaves
\* sectionIndex, exerciseIndex, currentSet and restDuration at 0, 0, 1, 0.
C13_StartFromIdle ==
    (lastOp = "startWorkout" /\ prev.phase = IDLE) =>
      /\ state.phase = EXERCISING
      /\ state.sectionIndex = 0
      /\ state.exerciseIndex = 0
      /\ state.currentSet = 1
      /\ state.restDuration = 0
      /\ state.sectionIndex = prev.sectionIndex
      /\ state.exerciseIndex = prev.exerciseIndex
      /\ state.currentSet = prev.currentSet
      /\ state.restDuration = prev.restDuration

\* C13 witness: start() was called from the Idle state that a restart()
\* produced.
C13_Witness ==
    /\ lastOp = "startWorkout"
    /\ prev.phase = IDLE
    /\ scenarioStep = -1
    /\ state.phase = EXERCISING

\* C14: completeSet() called when the cursor does not resolve to an exercise
\* leaves the whole state unchanged.
C14_UnresolvedCursorNoOp ==
    (lastOp = "completeSet" /\ cursorUnresolved(workout, prev)) => state = prev

\* C14 witness: completeSet() was called while Exercising with the cursor on
\* an empty second section.
C14_Witness ==
    /\ lastOp = "completeSet"
    /\ cursorUnresolved(workout, prev)
    /\ prev.phase = EXERCISING
    /\ prev.sectionIndex = 1
    /\ hasSection(workout, 1)
    /\ state = prev

\* C15: on the workout with one section and one exercise (sets = 2,
\* restAfterSet = 5), start(), completeSet(), afterRest(), completeSet()
\* give in order: Exercising with currentSet = 1; Resting with currentSet = 2
\* and restDuration = 5; Exercising with currentSet = 2; Completed.
C15_EndToEnd ==
    workout = ScenarioWorkout =>
      /\ scenarioStep = 1 => state.phase = EXERCISING /\ state.currentSet = 1
      /\ scenarioStep = 2 =>
           state.phase = RESTING /\ state.currentSet = 2 /\ state.restDuration = 5
      /\ scenarioStep = 3 => state.phase = EXERCISING /\ state.currentSet = 2
      /\ scenarioStep = 4 => state.phase = COMPLETED

\* C15 witness: the four calls were made in order on that workout.
C15_Witness ==
    /\ workout = ScenarioWorkout
    /\ scenarioStep = 4
    /\ lastOp = "completeSet"

-----------------------------------------------------------------------------
\* Countdown timer (TimerSpec)

\* C16: a timer started with start(d), d >= 1, and then left alone decrements
\* timeRemaining by exactly 1 per tick; after exactly d ticks it has
\* timeRemaining = 0 and status = Finished, has stopped ticking (no interval
\* is left and no further tick runs) and has invoked the completion callback
\* exactly once; before that it is Running and has not invoked it.
C16_RunToCompletion ==
    (run = "alone" /\ totalTime >= 1) =>
      /\ ticks <= totalTime
      /\ timeRemaining = totalTime - ticks
      /\ ticks < totalTime => status = "running" /\ completions = 0
      /\ ticks = totalTime =>
           /\ status = "finished"
           /\ timeRemaining = 0
           /\ intervals = {}
           /\ completions = 1

\* C17: between one start() call and the next start() or reset(), the
\* completion callback is invoked at most once, whatever pause(), resume()
\* and ticks happen in between.
C17_CompletesAtMostOnce ==
    run # "none" => completions <= 1

\* C18: at most one tick source is active per timer instance in every
\* reachable state.
C18_SingleTickSource ==
    Cardinality(intervals) <= 1

\* C19: pause() called while status is Idle, Paused or Finished leaves
\* status, timeRemaining and totalTime unchanged.
C19_PauseOnlyFromRunning ==
    (timerOp = "pause" /\ timerPrev.status \in {"idle", "paused", "finished"}) =>
      /\ status = timerPrev.status
      /\ timeRemaining = timerPrev.timeRemaining
      /\ totalTime = timerPrev.totalTime

\* C20: pause() called while status = Running leaves no tick source, sets
\* status = Paused and keeps timeRemaining and totalTime; and no tick that
\* runs while Paused decrements timeRemaining.
C20_PauseStopsTicking ==
    /\ (timerOp = "pause" /\ timerPrev.status = "running") =>
         /\ intervals = {}
         /\ status = "paused"
         /\ timeRemaining = timerPrev.timeRemaining
         /\ totalTime = timerPrev.totalTime
    /\ (timerOp = "tick" /\ timerPrev.status = "paused") =>
         timeRemaining >= timerPrev.timeRemaining

\* C21: resume() called while status = Paused sets status = Running, keeps
\* timeRemaining and installs a tick source; called while status is Idle,
\* Running or Finished it changes no state and installs no tick source.
C21_ResumeOnlyFromPaused ==
    timerOp = "resume" =>
      IF timerPrev.status = "paused"
      THEN /\ status = "running"
           /\ timeRemaining = timerPrev.timeRemaining
           /\ intervalRef # NoInterval
           /\ intervalRef \in intervals
      ELSE /\ status = timerPrev.status
           /\ timeRemaining = timerPrev.timeRemaining
           /\ totalTime = timerPrev.totalTime
           /\ intervals = timerPrev.intervals
           /\ intervalRef = timerPrev.intervalRef

\* C22: for a Running timer, pause() followed by resume() with no tick in
\* between leaves timeRemaining and totalTime as they were before the pause,
\* and the timer then keeps ticking and reaches Finished after exactly
\* timeRemaining further ticks.
C22_PauseResumePreserves ==
    resumed.active =>
      /\ totalTime = resumed.totalTime
      /\ resumed.ticks = 0 => timeRemaining = resumed.timeRemaining
      /\ resumed.ticks <= resumed.timeRemaining
      /\ resumed.ticks < resumed.timeRemaining =>
           status = "running" /\ intervalRef \in intervals
      /\ resumed.ticks = resumed.timeRemaining => status = "finished"

\* C23: start(d) from any status leaves exactly the tick source it installs,
\* and sets totalTime = timeRemaining = d and status = Running; start() with
\* no argument uses initialDuration, and start(0) uses 0.
C23_Start ==
    timerOp = "start" =>
      /\ startArg = NoDuration => totalTime = initialDuration
      /\ startArg # NoDuration => totalTime = startArg
      /\ startArg = 0 => totalTime = 0
      /\ timeRemaining = totalTime
      /\ status = "running"
      /\ intervalRef # NoInterval
      /\ intervals = {intervalRef}

\* C24: reset() from any status leaves no tick source and sets timeRemaining
\* = totalTime = initialDuration and status = Idle; until the next start() no
\* tick runs and the completion callback is not invoked.
C24_Reset ==
    /\ timerOp = "reset" =>
         /\ intervals = {}
         /\ timeRemaining = initialDuration
         /\ totalTime = initialDuration
         /\ status = "idle"
    /\ sinceReset => (timerOp # "tick" /\ completions = 0)

\* C25: in every reachable timer state 0 <= timeRemaining <= totalTime.
C25_TimeRemainingInRange ==
    0 <= timeRemaining /\ timeRemaining <= totalTime

\* C25 witness: a tick left the timer strictly between 0 and totalTime.
C25_Witness ==
    /\ timerOp = "tick"
    /\ 0 < timeRemaining
    /\ timeRemaining < totalTime
    /\ timeRemaining = timerPrev.timeRemaining - 1

\* C26: once the timer is torn down (and no control is called afterwards) no
\* tick source is left and no tick runs.
C26_TeardownStopsTicking ==
    lifecycle = "unmounted" => (intervals = {} /\ timerOp # "tick")

\* C27: start(), resume(), pause() or reset() called on a torn-down timer
\* installs no tick source.
C27_CallsAfterTeardownAreSafe ==
    (/\ timerOp \in {"start", "resume", "pause", "reset"}
     /\ timerPrev.lifecycle # "mounted")
    => intervals \subseteq timerPrev.intervals

\* C30: the tick that reaches 0 invokes the callback most recently supplied,
\* and supplying a callback changes neither timeRemaining, totalTime, status
\* nor the tick sources.
C30_LatestCallback ==
    /\ (timerOp = "tick" /\ timerPrev.timeRemaining <= 1) => invoked = onComplete
    /\ timerOp = "supply" =>
         /\ timeRemaining = timerPrev.timeRemaining
         /\ totalTime = timerPrev.totalTime
         /\ status = timerPrev.status
         /\ intervals = timerPrev.intervals
         /\ intervalRef = timerPrev.intervalRef

\* C30 witness: the timer reached 0 and invoked a callback other than the
\* one that was current when its interval was created.
C30_Witness ==
    /\ timerOp = "tick"
    /\ timerPrev.timeRemaining <= 1
    /\ timerPrev.status = "running"
    /\ invoked = onComplete
    /\ invoked # installedCallback

\* C28: in the composed runner a timed component that goes away leaves no
\* tick source behind, the completion callback of a timer reaches the
\* session only while the session is in the phase and at the cursor the timer
\* was mounted for, and one mounted timer invokes its callback at most once.
C28_TimerDiscardedWithPhase ==
    /\ orphans = 0
    /\ completions <= 1
    /\ view.screen \notin Timed => intervals = {}
    /\ (timerOp = "tick" /\ lastOp # "none") =>
         /\ viewOf(workout, prev) = view
         /\ lastOp = (IF view.screen = "timer" THEN "completeSet" ELSE "afterRest")

\* C28 witness: Skip was pressed while the exercise timer was ticking; the
\* rest screen replaced it and nothing of the old timer is alive.
C28_Witness ==
    /\ timerOp = "skip"
    /\ timerPrev.status = "running"
    /\ timerPrev.intervals # {}
    /\ discarded
    /\ view.screen = "rest"
    /\ orphans = 0

\* C29: when the session has entered a timed phase, the countdown committed
\* for it is a fresh timer: Running, timeRemaining = totalTime = the duration
\* of the phase (currentTimerDuration, resp. restDuration), one tick source,
\* no completion yet.
C29_FreshTimerPerPhase ==
    (enteredBy = "committed" /\ view.screen \in Timed) =>
      /\ status = "running"
      /\ totalTime = phaseDuration(workout, state)
      /\ timeRemaining = totalTime
      /\ completions = 0
      /\ intervals = {intervalRef}
      /\ intervalRef # NoInterval

\* C29 witness: an exercise timer was paused part-way and then skipped; the
\* rest timer that follows runs with the full rest duration.
C29_Witness ==
    /\ timerOp = "skip"
    /\ timerPrev.status = "paused"
    /\ timerPrev.timeRemaining < timerPrev.totalTime
    /\ enteredBy = "committed"
    /\ view.screen = "rest"
    /\ status = "running"
    /\ timeRemaining = state.restDuration
    /\ timeRemaining # timerPrev.timeRemaining

C39_TickSourceIffRunning ==
    (intervals # {}) <=> (status = "running")

\* C40: a timer started with duration 0 is Running with timeRemaining = 0
\* and no completion after start(); the first tick after it sets Finished,
\* keeps timeRemaining at 0 and invokes the completion callback once.
C40_ZeroDuration ==
    /\ (timerOp = "start" /\ totalTime = 0) =>
         /\ status = "running"
         /\ timeRemaining = 0
         /\ completions = 0
         /\ intervalRef \in intervals
    /\ (/\ timerOp = "tick"
        /\ timerPrev.op = "start"
        /\ timerPrev.totalTime = 0) =>
         /\ status = "finished"
         /\ timeRemaining = 0
         /\ completions = 1
         /\ intervalRef = NoInterval

\* C40 witness: start(0) on a timer whose initialDuration is not 0, then one
\* tick: Finished at 0 with one completion and no interval left.
C40_Witness ==
    /\ timerOp = "tick"
    /\ timerPrev.op = "start"
    /\ timerPrev.totalTime = 0
    /\ initialDuration > 0
    /\ startArg = 0
    /\ status = "finished"
    /\ completions = 1
    /\ intervals = {}

cursorAdvanced(p, s) ==
    \/ s.sectionIndex > p.sectionIndex
    \/ s.sectionIndex = p.sectionIndex /\ s.exerciseIndex > p.exerciseIndex

\* C34: in every reachable state with phase Idle, Exercising or Resting,
\* completedExercises <= totalExercises - 1, and completedExercises changes
\* only on a completeSet() that advances exerciseIndex or sectionIndex.
C34_CompletedExcludesCurrent ==
    /\ state.phase \in {IDLE, EXERCISING, RESTING} =>
         completedExercises(workout, state) <= totalExercises(workout) - 1
    /\ completedExercises(workout, state) # completedExercises(workout, prev) =>
         lastOp = "completeSet" /\ cursorAdvanced(prev, state)

\* C34 as amended: for a well-formed workout, in every reachable state with
\* phase Idle, Exercising or Resting, completedExercises <= totalExercises - 1;
\* for every workout completedExercises changes only on a completeSet() that
\* advances exerciseIndex or sectionIndex and on a restartWorkout(), which
\* sets it back to 0.
C34_CompletedExcludesCurrentAmended ==
    /\ (WellFormed(workout) /\ state.phase \in {IDLE, EXERCISING, RESTING}) =>
         completedExercises(workout, state) <= totalExercises(workout) - 1
    /\ completedExercises(workout, state) # completedExercises(workout, prev) =>
         \/ lastOp = "completeSet" /\ cursorAdvanced(prev, state)
         \/ lastOp = "restartWorkout" /\ completedExercises(workout, state) = 0

\* C34 witness: restartWorkout() while resting before the last exercise of a
\* well-formed workout took completedExercises from totalExercises - 1 to 0.
C34_Witness ==
    /\ WellFormed(workout)
    /\ lastOp = "restartWorkout"
    /\ prev.phase = RESTING
    /\ completedExercises(workout, prev) = totalExercises(workout) - 1
    /\ completedExercises(workout, prev) > 0
    /\ completedExercises(workout, state) = 0

-----------------------------------------------------------------------------
\* A whole workout driven through the screens: each screen offers the one
\* transition of its phase (onStart when IDLE, onComplete/onSkip when
\* EXERCISING, the rest timer's onComplete when RESTING, none when COMPLETED)

\* The sets of exercise j of section i, in order
setsOf(w, i, j) == [k \in 1..exerciseAt(w, i, j).sets |-> <<i, j, k>>]

RECURSIVE exercisesFrom(_, _, _)
\* The sets of the exercises j, j + 1, ... of section i
exercisesFrom(w, i, j) ==
    IF j >= Len(sectionAt(w, i)) THEN << >>
    ELSE setsOf(w, i, j) \o exercisesFrom(w, i, j + 1)

RECURSIVE sectionsFrom(_, _)
\* The sets of the sections i, i + 1, ...
sectionsFrom(w, i) ==
    IF i >= Len(w) THEN << >>
    ELSE exercisesFrom(w, i, 0) \o sectionsFrom(w, i + 1)

\* Every set of every exercise of every section, in workout order
everySet(w) == sectionsFrom(w, 0)

\* The sum of sets over all exercises
totalSets(w) == Len(everySet(w))

IsPrefix(a, b) == Len(a) <= Len(b) /\ a = SubSeq(b, 1, Len(a))

\* The workout data the core assumes: well-formed
DriveInit ==
    /\ timerMounted(0)
    /\ workout \in {w \in Workout : WellFormed(w)}
    /\ state = INITIAL_STATE
    /\ prev = INITIAL_STATE
    /\ lastOp = "init"
    /\ scenarioStep = 0
    /\ runnerAbsent
    /\ driveAbsent
    /\ hookAbsent

\* ReadyScreen's onStart
driveStart ==
    /\ state.phase = IDLE
    /\ state' = startUpdater(workout, state)
    /\ prev' = state
    /\ lastOp' = "startWorkout"
    /\ visited' = Append(visited, exerciseKey(state'))
    /\ UNCHANGED <<workout, scenarioStep, completeSetCalls, afterRestCalls,
                   timerVars, runnerVars, hookVars>>

\* The exercise screen's onComplete / onSkip
driveCompleteSet ==
    /\ state.phase = EXERCISING
    /\ state' = completeSetUpdater(workout, state)
    /\ prev' = state
    /\ lastOp' = "completeSet"
    /\ completeSetCalls' = completeSetCalls + 1
    /\ UNCHANGED <<workout, scenarioStep, afterRestCalls, visited,
                   timerVars, runnerVars, hookVars>>

\* RestPeriodUI's onComplete
driveAfterRest ==
    /\ state.phase = RESTING
    /\ state' = afterRestUpdater(workout, state)
    /\ prev' = state
    /\ lastOp' = "afterRest"
    /\ afterRestCalls' = afterRestCalls + 1
    /\ visited' = Append(visited, exerciseKey(state'))
    /\ UNCHANGED <<workout, scenarioStep, completeSetCalls,
                   timerVars, runnerVars, hookVars>>

DriveNext == driveStart \/ driveCompleteSet \/ driveAfterRest

DriveSpec == DriveInit /\ [][DriveNext]_vars

\* C35: for every well-formed workout, after start(), calling completeSet()
\* whenever Exercising and afterRest() whenever Resting reaches Completed
\* after exactly S completeSet() calls and S-1 afterRest() calls, S the sum
\* of sets over all exercises; Completed is not reached earlier. (Every call
\* changes the phase, so the drive cannot stall before Completed.)
C35_CompletedAfterAllSets ==
    /\ state.phase = COMPLETED =>
         /\ completeSetCalls = totalSets(workout)
         /\ afterRestCalls = totalSets(workout) - 1
    /\ state.phase # COMPLETED => completeSetCalls < totalSets(workout)
    /\ afterRestCalls <= completeSetCalls
    /\ lastOp \in {"startWorkout", "completeSet", "afterRest"} =>
         state.phase # prev.phase

\* C35 witness: Completed was reached on a workout of two sections and at
\* least four sets.
C35_Witness ==
    /\ state.phase = COMPLETED
    /\ Len(workout) = 2
    /\ totalSets(workout) >= 4
    /\ completeSetCalls = totalSets(workout)
    /\ afterRestCalls = totalSets(workout) - 1

\* C36: driven only by valid calls, the sequence of (sectionIndex,
\* exerciseIndex, currentSet) triples observed in phase Exercising is exactly
\* the lexicographic enumeration of every set of every exercise of every
\* section: always a prefix of it, ending with the current cursor while
\* Exercising, and the whole of it once Completed.
C36_LexicographicOrder ==
    /\ IsPrefix(visited, everySet(workout))
    /\ state.phase = EXERCISING =>
         /\ Len(visited) >= 1
         /\ visited[Len(visited)] = exerciseKey(state)
    /\ state.phase = COMPLETED => visited = everySet(workout)

\* C36 witness: Completed on a workout of two sections, the first with two
\* exercises and some exercise with two sets; every set was visited.
C36_Witness ==
    /\ state.phase = COMPLETED
    /\ Len(workout) = 2
    /\ Len(sectionAt(workout, 0)) = 2
    /\ exerciseAt(workout, 1, 0).sets = 2
    /\ Len(visited) >= 4
    /\ visited = everySet(workout)

-----------------------------------------------------------------------------
\* currentTimerDuration as the hook returns it, over exercises whose duration
\* is a number or a {min, max} range

\* Seconds a duration is drawn from
DurationSeconds == {0, 5, 6, 40, 60}

\* Duration = number | { min: number; max: number }
Duration ==
    [seconds : DurationSeconds] \cup [min : DurationSeconds, max : DurationSeconds]

\* TimerExercise | RepsExercise, one set each
DurationExercise ==
    [type : {"timer"}, sets : {1}, restAfterSet : {0}, duration : Duration]
    \cup [type : {"reps"}, sets : {1}, restAfterSet : {0}, reps : {1}]

\* No section, or one section of up to MaxRunnerExercises exercises (none included)
DurationWorkout ==
    {<< >>} \cup {<<sec>> : sec \in SeqsUpTo(DurationExercise, MaxRunnerExercises)}

DurationInit ==
    /\ timerMounted(0)
    /\ workout \in DurationWorkout
    /\ state = INITIAL_STATE
    /\ prev = INITIAL_STATE
    /\ lastOp = "init"
    /\ scenarioStep = 0
    /\ runnerAbsent
    /\ driveAbsent
    /\ pending = << >>
    /\ batch = << >>
    /\ timerDuration = currentTimerDuration(workout, INITIAL_STATE)

\* A transition function was called and the hook rendered again with next
renderedCall(op, next) ==
    /\ state' = next
    /\ prev' = state
    /\ lastOp' = op
    /\ timerDuration' = currentTimerDuration(workout, next)
    /\ UNCHANGED <<workout, scenarioStep, pending, batch,
                   timerVars, runnerVars, driveVars>>

durationStartWorkout == renderedCall("startWorkout", startUpdater(workout, state))

durationCompleteSet == renderedCall("completeSet", completeSetUpdater(workout, state))

durationAfterRest == renderedCall("afterRest", afterRestUpdater(workout, state))

DurationNext == durationStartWorkout \/ durationCompleteSet \/ durationAfterRest

DurationSpec == DurationInit /\ [][DurationNext]_vars

\* C32: currentTimerDuration is the fixed duration for a timed exercise with
\* a numeric duration, round((min+max)/2) with halves rounded up for a
\* {min,max} range (40..60 gives 50, 5..6 gives 6), and none whenever the
\* current exercise is a reps exercise or the cursor resolves to no exercise.
C32_CurrentTimerDuration ==
    IF cursorUnresolved(workout, state) THEN timerDuration = NoDuration
    ELSE LET e == cursorExercise(workout, state) IN
         /\ e.type = "reps" => timerDuration = NoDuration
         /\ (e.type = "timer" /\ "seconds" \in DOMAIN e.duration) =>
              timerDuration = e.duration.seconds
         /\ (e.type = "timer" /\ "min" \in DOMAIN e.duration) =>
              /\ 2 * timerDuration - (e.duration.min + e.duration.max) \in {0, 1}
              /\ e.duration = [min |-> 40, max |-> 60] => timerDuration = 50
              /\ e.duration = [min |-> 5, max |-> 6] => timerDuration = 6

\* C32 witness: the hook rendered the second exercise after a rest, a timed
\* exercise of 5..6 seconds, with currentTimerDuration 6; the first exercise
\* was a reps exercise.
C32_Witness ==
    /\ lastOp = "afterRest"
    /\ prev.phase = RESTING
    /\ state.exerciseIndex = 1
    /\ exerciseAt(workout, 0, 0).type = "reps"
    /\ cursorExercise(workout, state).type = "timer"
    /\ cursorExercise(workout, state).duration = [min |-> 5, max |-> 6]
    /\ timerDuration = 6

-----------------------------------------------------------------------------
\* useWorkout's state updates as React queues them: every transition function
\* only calls setState; the queued updates are processed, in order, by the
\* next render

\* The well-formed workouts of at most MaxRunnerExercises exercises
BatchWorkout ==
    {w \in Workout : WellFormed(w) /\ totalExercises(w) <= MaxRunnerExercises}

\* The transition functions
Transition == {"startWorkout", "completeSet", "afterRest", "restartWorkout"}

applyUpdateCaptured(w, p, u) ==
    CASE u.op = "startWorkout" -> startUpdater(w, u.captured)
      [] u.op = "completeSet" -> completeSetUpdater(w, u.captured)
      [] u.op = "afterRest" -> afterRestUpdater(w, u.captured)
      [] u.op = "restartWorkout" -> restartValue(w, u.captured)

\* One queued update u applied to the state p: setState's argument is called
\* with p (an updater function) or replaces p (a value)
applyUpdate(w, p, u) ==
    CASE u.op = "startWorkout" -> startUpdater(w, p)
      [] u.op = "completeSet" -> completeSetUpdater(w, p)
      [] u.op = "afterRest" -> afterRestUpdater(w, p)
      [] u.op = "restartWorkout" -> restartValue(w, p)

RECURSIVE processUpdateQueue(_, _, _)
\* The queue q processed from the state p, oldest update first
processUpdateQueue(w, p, q) ==
    IF q = << >> THEN p
    ELSE processUpdateQueue(w, applyUpdate(w, p, Head(q)), Tail(q))

BatchInit ==
    /\ timerMounted(0)
    /\ workout \in BatchWorkout
    /\ state = INITIAL_STATE
    /\ prev = INITIAL_STATE
    /\ lastOp = "init"
    /\ scenarioStep = 0
    /\ runnerAbsent
    /\ driveAbsent
    /\ hookAbsent

\* A transition function is called through a callback that was captured at
\* the last render or at the one before: setState queues its update
enqueue(op) ==
    /\ Len(pending) < MaxPending
    /\ \E c \in {prev, state} :
         pending' = Append(pending, [op |-> op, captured |-> c])
    /\ batch' = << >>
    /\ lastOp' = op
    /\ UNCHANGED <<workout, state, prev, scenarioStep, timerDuration,
                   timerVars, runnerVars, driveVars>>

callStartWorkout == enqueue("startWorkout")

callCompleteSet == enqueue("completeSet")

callAfterRest == enqueue("afterRest")

callRestartWorkout == enqueue("restartWorkout")

\* The re-render: useState processes the queue
batchRender ==
    /\ pending # << >>
    /\ state' = processUpdateQueue(workout, state, pending)
    /\ prev' = state
    /\ batch' = pending
    /\ pending' = << >>
    /\ lastOp' = "render"
    /\ UNCHANGED <<workout, scenarioStep, timerDuration,
                   timerVars, runnerVars, driveVars>>

BatchNext ==
    \/ callStartWorkout
    \/ callCompleteSet
    \/ callAfterRest
    \/ callRestartWorkout
    \/ batchRender

BatchSpec == BatchInit /\ [][BatchNext]_vars

\* The transition op applied on its own to the rendered state p
transitionAlone(w, p, op) ==
    IF op = "startWorkout" THEN startUpdater(w, p)
    ELSE IF op = "completeSet" THEN completeSetUpdater(w, p)
    ELSE IF op = "afterRest" THEN afterRestUpdater(w, p)
    ELSE restartValue(w, p)

RECURSIVE oneAfterTheOther(_, _, _)
\* The transitions of q, each applied to the state the one before it gave
oneAfterTheOther(w, p, q) ==
    IF q = << >> THEN p
    ELSE oneAfterTheOther(w, transitionAlone(w, p, Head(q).op), Tail(q))

\* C31: a transition triggered from a callback captured at an earlier render
\* computes its result from the session state current when it is applied,
\* not from the state at capture time: transitions issued back-to-back
\* without a re-render in between produce the same state as applying them
\* one after the other (no lost update).
C31_NoLostUpdate ==
    lastOp = "render" => state = oneAfterTheOther(workout, prev, batch)

\* C31 witness: completeSet() twice back-to-back while Exercising, the second
\* through a callback captured while the state was another one; the render
\* gave the state two transitions on, which is not what the second call
\* gives from the state it was captured with.
C31_Witness ==
    /\ lastOp = "render"
    /\ Len(batch) = 2
    /\ batch[1].op = "completeSet"
    /\ batch[2].op = "afterRest"
    /\ batch[2].captured # prev
    /\ prev.phase = EXERCISING
    /\ state.phase = EXERCISING
    /\ state # prev
    /\ state # afterRestUpdater(workout, batch[2].captured)
    /\ state # afterRestUpdater(workout, prev)

====
